---- MODULE Spec2Model ----
(***************************************************************************)
(* Model of crispy::posix_read_selector and crispy::epoll_read_selector    *)
(* (src/src/crispy/read_selector.h).                                       *)
(*                                                                         *)
(* One selector object, one waiter thread that calls wait_one, one other   *)
(* thread that calls wakeup, and the operating system: which caller        *)
(* descriptors are readable, the eventfd counter, the kernel's epoll       *)
(* interest table, signals (EINTR) and failures of the readiness call.     *)
(*                                                                         *)
(* An optional<T> is a sequence: <<>> is std::nullopt, <<v>> holds v.      *)
(***************************************************************************)
EXTENDS Integers, Sequences, FiniteSets

\* ---------------------------------------------------------------- bounds
\* Caller descriptors are 1..NumFds.
NumFds == 2
\* Longest _fds vector of the select backend (want_read calls not yet cancelled).
MaxRegs == 2
\* Most wakeup() writes the eventfd counter holds before it is drained (its maximum).
MaxWakes == 2
\* Most selector objects alive at once: the one constructed and its copies.
MaxObjects == 2
\* The finite, non-zero timeout a caller passes (milliseconds).
TimeoutMs == 10

\* The largest timeout, in milliseconds, the timeout translations are applied
\* to; they are applied to every count from -MaxMs to MaxMs.
MaxMs == 2500
\* The width of int in this model (32 in the build): small enough for the
\* counts up to MaxMs to include values that do not fit an int.
IntBits == 8

UserFds == 1..NumFds

\* The timeouts wait_one is called with: none, zero, TimeoutMs.
Timeouts == {<<>>, <<0>>, <<TimeoutMs>>}

\* The arguments the timeout translations are applied to: no timeout, and
\* every count of milliseconds from -MaxMs to MaxMs.
TimeoutInputs == {<<>>} \cup {<<m>> : m \in -MaxMs..MaxMs}

\* The descriptor number epoll_create1() hands out: not one of the caller's.
EpollFdNumber == NumFds + 1

\* The descriptor number eventfd() hands out: not one of the caller's.
EventFdNumber == NumFds + 2

\* The descriptor numbers a selector can own.
OwnNumbers == {EpollFdNumber, EventFdNumber}

VARIABLES
    backend,        \* "epoll" | "select": what read_selector resolves to
    _fds,           \* posix: std::vector<int>, kept sorted
    _reader,        \* posix: fd_set handed to select(), as a set
    _breakPipe,     \* posix: int[2], <<read end, write end>>
    pipeBytes,      \* posix: bytes buffered in the break pipe
    _eventFd,       \* epoll: the eventfd descriptor
    epollTable,     \* epoll: descriptors registered in the kernel table of _epollFd
    eventCount,     \* epoll: the eventfd's counter
    _pending,       \* std::deque<int>
    readable,       \* OS: caller descriptors that have unread data
    pc,             \* waiter: "idle" | "enter" | "os"
    timeout,        \* waiter: the timeout argument of the wait_one in progress
    result,         \* waiter: the readiness call's result, <<>> when none was made
    errno,          \* waiter: errno
    ret,            \* waiter: what the last wait_one returned
    events,         \* history: the real descriptors the last wait_one's readiness call enumerated
    wakeAt,         \* history: where the waiter was at the oldest undrained wakeup()
    everReadable,   \* history: caller descriptors that have been readable
    cleanCancelled, \* history: cancelled before ever readable, not registered since
    _epollFd,       \* epoll: the epoll descriptor
    objects,        \* the selector objects alive: the one constructed and its copies
    fdTable,        \* OS: who holds each of OwnNumbers: "selector" | "caller" | "closed"
    closeCalls,     \* history: close() calls the destructors made on each of OwnNumbers
    wanted,         \* history: caller descriptors among OwnNumbers passed to want_read
    count,          \* translation: the timeout argument a translation is applied to
    osTimeout       \* translation: <<>>, or <<the argument built for the readiness call>>

selVars == <<_fds, _reader, _breakPipe, pipeBytes>>
epVars == <<_eventFd, epollTable, eventCount>>
waitVars == <<pc, timeout, result, errno, ret>>
histVars == <<events, wakeAt, everReadable, cleanCancelled>>
lifeVars == <<_epollFd, objects, fdTable, closeCalls, wanted>>
convVars == <<count, osTimeout>>
vars == <<backend, selVars, epVars, _pending, readable, waitVars, histVars, lifeVars, convVars>>

\* ---------------------------------------------------------------- helpers
Range(s) == {s[i] : i \in 1..Len(s)}

\* The enumerations of a set, each element once.
Perms(S) ==
    {s \in [1..Cardinality(S) -> S] : \A i, j \in 1..Cardinality(S) : i # j => s[i] # s[j]}

\* x put into the ascending sequence s.
Insert(s, x) ==
    LET k == Cardinality({i \in 1..Len(s) : s[i] <= x})
    IN SubSeq(s, 1, k) \o <<x>> \o SubSeq(s, k + 1, Len(s))

\* std::sort(_fds.begin(), _fds.end())
RECURSIVE std_sort(_)
std_sort(s) == IF s = <<>> THEN <<>> ELSE Insert(std_sort(Tail(s)), Head(s))

\* An erase that starts at the first x and runs to the end of the vector.
RECURSIVE RemoveFrom(_, _)
RemoveFrom(s, x) ==
    IF s = <<>> \/ Head(s) = x THEN <<>> ELSE <<Head(s)>> \o RemoveFrom(Tail(s), x)

\* std::remove + erase: every occurrence of x taken out of s.
RemoveAll(s, x) == SelectSeq(s, LAMBDA e : e # x)

\* try_pop_pending taking the back of the queue instead of the front.
try_pop_back(q) ==
    IF q = <<>> THEN [fd |-> <<>>, rest |-> <<>>]
    ELSE [fd |-> <<q[Len(q)]>>, rest |-> SubSeq(q, 1, Len(q) - 1)]

\* try_pop_pending: the value returned and the queue left.
try_pop_pending(q) ==
    IF q = <<>> THEN [fd |-> <<>>, rest |-> <<>>]
    ELSE [fd |-> <<Head(q)>>, rest |-> Tail(q)]

\* How a caller reads a wait_one result: the optional and errno.
Outcome(r, e) ==
    IF r # <<>> THEN "Ready"
    ELSE IF e = "EINTR" THEN "Interrupted"
    ELSE IF e = "EAGAIN" THEN "TimedOut"
    ELSE "Error"

Registered(fd) ==
    IF backend = "epoll" THEN fd \in epollTable ELSE fd \in Range(_fds)

\* ---------------------------------------------------------------- initial state
\* The selector after construction.
InitSelector ==
    /\ backend \in {"epoll", "select"}
    /\ _fds = <<>>
    /\ _reader = {}
    /\ _breakPipe = <<-1, -1>>
    /\ pipeBytes = 0
    /\ _eventFd = IF backend = "epoll" THEN EventFdNumber ELSE -1
    /\ epollTable = IF backend = "epoll" THEN {EventFdNumber} ELSE {}
    /\ eventCount = 0
    /\ _pending = <<>>
    /\ readable = {}
    /\ pc = "idle"
    /\ timeout = <<>>
    /\ result = <<>>
    /\ errno = "NONE"
    /\ ret = <<>>
    /\ events = <<>>
    /\ wakeAt = "none"
    /\ everReadable = {}
    /\ cleanCancelled = {}
    /\ _epollFd = IF backend = "epoll" THEN EpollFdNumber ELSE -1
    /\ objects = 1
    /\ fdTable = [n \in OwnNumbers |-> IF backend = "epoll" THEN "selector" ELSE "closed"]
    /\ closeCalls = [n \in OwnNumbers |-> 0]
    /\ wanted = {}

Init ==
    /\ InitSelector
    /\ count = <<>>
    /\ osTimeout = <<>>

\* ---------------------------------------------------------------- history
\* want_read(fd): fd is registered again.
HistWant(fd) ==
    /\ cleanCancelled' = cleanCancelled \ {fd}
    /\ UNCHANGED <<events, wakeAt, everReadable>>

\* cancel_read(fd): fd was registered and has never been readable.
HistCancel(fd) ==
    /\ cleanCancelled' =
         IF Registered(fd) /\ fd \notin everReadable
         THEN cleanCancelled \cup {fd} ELSE cleanCancelled
    /\ UNCHANGED <<events, wakeAt, everReadable>>

HistWake ==
    /\ wakeAt' = IF wakeAt = "none" THEN pc ELSE wakeAt
    /\ UNCHANGED <<events, everReadable, cleanCancelled>>

\* ---------------------------------------------------------------- the operating system
\* Data arrives on the descriptors of S at once.
BecomeReadable(S) ==
    /\ S # {} /\ S \cap readable = {}
    /\ readable' = readable \cup S
    /\ everReadable' = everReadable \cup S
    /\ UNCHANGED <<backend, lifeVars, convVars, selVars, epVars, _pending, waitVars, events, wakeAt, cleanCancelled>>

\* The caller reads the data of the descriptor wait_one has just handed it.
ReadData ==
    /\ pc = "idle" /\ ret # <<>> /\ ret[1] \in readable
    /\ readable' = readable \ {ret[1]}
    /\ UNCHANGED <<backend, lifeVars, convVars, selVars, epVars, _pending, waitVars, histVars>>

\* ---------------------------------------------------------------- epoll backend
\* epoll_ctl(_epollFd, EPOLL_CTL_ADD, fd, &event); EEXIST when fd is in the table.
\* The kernel serialises it with an epoll_wait in progress.
epoll_want_read(fd) ==
    /\ backend = "epoll"
    /\ epollTable' = epollTable \cup {fd}
    /\ HistWant(fd)
    /\ UNCHANGED <<backend, lifeVars, convVars, selVars, _eventFd, eventCount, _pending, readable, waitVars>>

\* cancel_read that leaves fd in the kernel table.
epoll_cancel_read_keeps(fd) ==
    /\ backend = "epoll"
    /\ HistCancel(fd)
    /\ UNCHANGED <<backend, lifeVars, convVars, selVars, epVars, _pending, readable, waitVars>>

\* cancel_read that also takes the entries of fd out of the pending queue.
epoll_cancel_read_purges(fd) ==
    /\ backend = "epoll"
    /\ epollTable' = epollTable \ {fd}
    /\ _pending' = RemoveAll(_pending, fd)
    /\ HistCancel(fd)
    /\ UNCHANGED <<backend, lifeVars, convVars, selVars, _eventFd, eventCount, readable, waitVars>>

\* epoll_ctl(_epollFd, EPOLL_CTL_DEL, fd, &event); ENOENT when fd is not in the table.
epoll_cancel_read(fd) ==
    /\ backend = "epoll"
    /\ epollTable' = epollTable \ {fd}
    /\ HistCancel(fd)
    /\ UNCHANGED <<backend, lifeVars, convVars, selVars, _eventFd, eventCount, _pending, readable, waitVars>>

\* wakeup on an eventfd opened without EFD_NONBLOCK: the write waits while the
\* counter is at its maximum.
epoll_wakeup_blocking ==
    /\ backend = "epoll"
    /\ eventCount < MaxWakes
    /\ eventCount' = eventCount + 1
    /\ HistWake
    /\ UNCHANGED <<backend, lifeVars, convVars, selVars, _eventFd, epollTable, _pending, readable, waitVars>>

\* write(_eventFd, &value, sizeof(value)) with value 1: the counter grows by one.
\* MaxWakes stands for the counter's maximum: there the write on the
\* EFD_NONBLOCK eventfd fails with EAGAIN at once and the counter stays.
epoll_wakeup ==
    /\ backend = "epoll"
    /\ eventCount' = IF eventCount < MaxWakes THEN eventCount + 1 ELSE eventCount
    /\ HistWake
    /\ UNCHANGED <<backend, lifeVars, convVars, selVars, _eventFd, epollTable, _pending, readable, waitVars>>

\* static_cast<int>(v): v modulo 2^IntBits, in -2^(IntBits-1) .. 2^(IntBits-1) - 1.
static_cast_int(v) == ((v + 2^(IntBits - 1)) % 2^IntBits) - 2^(IntBits - 1)

\* The timeout argument with a zero timeout taken for no timeout.
EpollTimeoutZeroAsNone(t) == IF t # <<>> /\ t[1] # 0 THEN static_cast_int(t[1]) ELSE -1

\* The timeout argument of epoll_wait: the count of milliseconds cast to int,
\* -1 (wait without limit) when there is no timeout.
EpollTimeout(t) == IF t # <<>> THEN static_cast_int(t[1]) ELSE -1

\* What epoll_wait has to report: level-triggered EPOLLIN of the table's descriptors.
EpollReady ==
    {fd \in epollTable : IF fd = _eventFd THEN eventCount > 0 ELSE fd \in readable}

\* The loop over the reported events without the test for the eventfd.
TriageNoFilter(evs, q) ==
    [piped |-> FALSE, drained |-> FALSE, queue |-> q \o evs]

\* The loop over the reported events: the eventfd is read (piped), every other
\* descriptor is pushed to the back of the queue.
Triage(evs, q) ==
    [piped |-> \E i \in 1..Len(evs) : evs[i] = _eventFd /\ eventCount > 0,
     drained |-> \E i \in 1..Len(evs) : evs[i] = _eventFd,
     queue |-> q \o SelectSeq(evs, LAMBDA e : e # _eventFd)]

\* wait_one that returns _pending.front() without the pop_front.
epoll_wait_one_front(t) ==
    /\ backend = "epoll" /\ pc = "idle"
    /\ LET p == try_pop_pending(_pending)
       IN IF p.fd # <<>>
          THEN /\ ret' = p.fd
               /\ _pending' = _pending
               /\ pc' = "idle"
          ELSE /\ ret' = <<>>
               /\ _pending' = _pending
               /\ pc' = "enter"
    /\ timeout' = t
    /\ result' = <<>>
    /\ events' = <<>>
    /\ UNCHANGED <<backend, lifeVars, convVars, selVars, epVars, readable, errno, wakeAt, everReadable, cleanCancelled>>

\* wait_one, up to the readiness call: the pending queue is tried first.
epoll_wait_one(t) ==
    /\ backend = "epoll" /\ pc = "idle"
    /\ LET p == try_pop_pending(_pending)
       IN IF p.fd # <<>>
          THEN /\ ret' = p.fd
               /\ _pending' = p.rest
               /\ pc' = "idle"
          ELSE /\ ret' = <<>>
               /\ _pending' = _pending
               /\ pc' = "enter"
    /\ timeout' = t
    /\ result' = <<>>
    /\ events' = <<>>
    /\ UNCHANGED <<backend, lifeVars, convVars, selVars, epVars, readable, errno, wakeAt, everReadable, cleanCancelled>>

\* The thread enters epoll_wait.
epoll_wait ==
    /\ backend = "epoll" /\ pc = "enter"
    /\ pc' = "os"
    /\ UNCHANGED <<backend, lifeVars, convVars, selVars, epVars, _pending, readable, timeout, result, errno, ret, histVars>>

\* The return after the triage with the wake tested first: when the eventfd
\* was read, Interrupted is reported and the queued descriptors stay queued.
epoll_wait_ready_wake_first ==
    /\ backend = "epoll" /\ pc = "os"
    /\ EpollReady # {}
    /\ \E evs \in Perms(EpollReady) :
         LET t == Triage(evs, _pending)
             p == IF t.piped THEN [fd |-> <<>>, rest |-> t.queue]
                  ELSE try_pop_pending(t.queue)
         IN /\ result' = <<Len(evs)>>
            /\ eventCount' = IF t.drained THEN 0 ELSE eventCount
            /\ wakeAt' = IF t.drained THEN "none" ELSE wakeAt
            /\ events' = SelectSeq(evs, LAMBDA e : e # _eventFd)
            /\ ret' = p.fd
            /\ _pending' = p.rest
            /\ errno' = IF p.fd # <<>> THEN errno
                        ELSE IF t.piped THEN "EINTR" ELSE "EAGAIN"
    /\ pc' = "idle"
    /\ UNCHANGED <<backend, lifeVars, convVars, selVars, _eventFd, epollTable, readable, timeout,
                   everReadable, cleanCancelled>>

\* epoll_wait returns the ready descriptors, in the kernel's order; the events
\* are triaged and the queue is popped.
epoll_wait_ready ==
    /\ backend = "epoll" /\ pc = "os"
    /\ EpollReady # {}
    /\ \E evs \in Perms(EpollReady) :
         LET t == Triage(evs, _pending)
             p == try_pop_pending(t.queue)
         IN /\ result' = <<Len(evs)>>
            /\ eventCount' = IF t.drained THEN 0 ELSE eventCount
            /\ wakeAt' = IF t.drained THEN "none" ELSE wakeAt
            /\ events' = SelectSeq(evs, LAMBDA e : e # _eventFd)
            /\ ret' = p.fd
            /\ _pending' = p.rest
            /\ errno' = IF p.fd # <<>> THEN errno
                        ELSE IF t.piped THEN "EINTR" ELSE "EAGAIN"
    /\ pc' = "idle"
    /\ UNCHANGED <<backend, lifeVars, convVars, selVars, _eventFd, epollTable, readable, timeout,
                   everReadable, cleanCancelled>>

\* epoll_wait returns 0: the timeout ran out with nothing ready.
epoll_wait_timeout ==
    /\ backend = "epoll" /\ pc = "os"
    /\ EpollReady = {}
    /\ EpollTimeout(timeout) >= 0
    /\ result' = <<0>>
    /\ errno' = "EAGAIN"
    /\ ret' = <<>>
    /\ pc' = "idle"
    /\ UNCHANGED <<backend, lifeVars, convVars, selVars, epVars, _pending, readable, timeout, histVars>>

\* A signal interrupts the sleeping epoll_wait: -1 with EINTR, and the loop continues.
epoll_wait_eintr ==
    /\ backend = "epoll" /\ pc = "os"
    /\ EpollReady = {}
    /\ EpollTimeout(timeout) # 0
    /\ result' = <<-1>>
    /\ errno' = "EINTR"
    /\ pc' = "os"
    /\ UNCHANGED <<backend, lifeVars, convVars, selVars, epVars, _pending, readable, timeout, ret, histVars>>

\* epoll_wait fails with another error: -1, and wait_one returns nullopt.
epoll_wait_error ==
    /\ backend = "epoll" /\ pc = "os"
    /\ result' = <<-1>>
    /\ errno' = "EBADF"
    /\ ret' = <<>>
    /\ pc' = "idle"
    /\ UNCHANGED <<backend, lifeVars, convVars, selVars, epVars, _pending, readable, timeout, histVars>>

\* ---------------------------------------------------------------- select backend
\* FD_SET(fd, &_reader); _fds.push_back(fd); std::sort(_fds.begin(), _fds.end()).
\* The bitmap and the vector are plain memory: they are changed only while no
\* wait_one is in progress.
posix_want_read(fd) ==
    /\ backend = "select" /\ pc = "idle"
    /\ Len(_fds) < MaxRegs
    /\ _reader' = _reader \cup {fd}
    /\ _fds' = std_sort(Append(_fds, fd))
    /\ HistWant(fd)
    /\ UNCHANGED <<backend, lifeVars, convVars, _breakPipe, pipeBytes, epVars, _pending, readable, waitVars>>

\* FD_CLR(fd, &_reader); _fds.erase(std::remove(_fds.begin(), _fds.end(), fd), _fds.end()).
posix_cancel_read(fd) ==
    /\ backend = "select" /\ pc = "idle"
    /\ _reader' = _reader \ {fd}
    /\ _fds' = RemoveAll(_fds, fd)
    /\ HistCancel(fd)
    /\ UNCHANGED <<backend, lifeVars, convVars, _breakPipe, pipeBytes, epVars, _pending, readable, waitVars>>

\* if (_breakPipe[1] != -1) write(_breakPipe[1], "x", 1);
posix_wakeup ==
    /\ backend = "select"
    /\ pipeBytes' = IF _breakPipe[2] # -1 THEN pipeBytes + 1 ELSE pipeBytes
    /\ HistWake
    /\ UNCHANGED <<backend, lifeVars, convVars, _fds, _reader, _breakPipe, epVars, _pending, readable, waitVars>>

\* a / b and a % b of C++ for b > 0: the quotient is truncated towards zero.
cpp_div(a, b) == IF a >= 0 THEN a \div b ELSE -((-a) \div b)
cpp_mod(a, b) == a - b * cpp_div(a, b)

\* A translation that hands select a zero timeval when no timeout is given.
SelectTimevalNoneAsZero(t) ==
    IF t = <<>> THEN <<[tv_sec |-> 0, tv_usec |-> 0]>>
    ELSE <<[tv_sec |-> cpp_div(t[1], 1000), tv_usec |-> cpp_mod(t[1], 1000) * 1000]>>

\* A translation that stores the remainder in milliseconds as tv_usec.
SelectTimevalMillis(t) ==
    IF t = <<>> THEN <<>>
    ELSE <<[tv_sec |-> cpp_div(t[1], 1000), tv_usec |-> cpp_mod(t[1], 1000)]>>

\* The timeval built from the timeout: <<>> is the null pointer (tv.get() of
\* an empty unique_ptr). tv_usec is below 10^6 in absolute value, so its cast
\* to int changes nothing; tv_sec has the width of the count.
SelectTimeval(t) ==
    IF t = <<>> THEN <<>>
    ELSE <<[tv_sec |-> cpp_div(t[1], 1000), tv_usec |-> cpp_mod(t[1], 1000) * 1000]>>

\* The first argument of select: _fds.back() + 1.
SelectNfds == _fds[Len(_fds)] + 1

\* What select has to report: the readable descriptors of _reader below nfds
\* (_writer and _except are empty).
SelectReady == {fd \in _reader : fd < SelectNfds /\ fd \in readable}

\* select overwrites the bitmap below nfds with the ready descriptors.
SelectResult(ready) == ready \cup {fd \in _reader : fd >= SelectNfds}

\* FD_ISSET(_breakPipe[0], &_reader) on the bitmap select left. With
\* _breakPipe[0] = -1 the macro reads outside the bitmap: any answer.
BreakPipeIsSet(left) ==
    IF _breakPipe[1] = -1 THEN BOOLEAN ELSE {_breakPipe[1] \in left}

\* The scan without its FD_ISSET test: every watched descriptor is queued.
ScanAll(left, q) == q \o _fds

\* for (int fd: _fds) if (FD_ISSET(fd, &_reader)) _pending.push_back(fd);
Scan(left, q) == q \o SelectSeq(_fds, LAMBDA fd : fd \in left)

\* wait_one, up to the readiness call: assert(!_fds.empty()), then the pending
\* queue is tried, which sets errno = EAGAIN when it is empty.
posix_wait_one(t) ==
    /\ backend = "select" /\ pc = "idle"
    /\ _fds # <<>>
    /\ LET p == try_pop_pending(_pending)
       IN IF p.fd # <<>>
          THEN /\ ret' = p.fd
               /\ _pending' = p.rest
               /\ pc' = "idle"
               /\ errno' = errno
          ELSE /\ ret' = <<>>
               /\ _pending' = _pending
               /\ pc' = "enter"
               /\ errno' = "EAGAIN"
    /\ timeout' = t
    /\ result' = <<>>
    /\ events' = <<>>
    /\ UNCHANGED <<backend, lifeVars, convVars, selVars, epVars, readable, wakeAt, everReadable, cleanCancelled>>

\* The thread builds the timeval and enters select.
select ==
    /\ backend = "select" /\ pc = "enter"
    /\ pc' = "os"
    /\ UNCHANGED <<backend, lifeVars, convVars, selVars, epVars, _pending, readable, timeout, result, errno, ret, histVars>>

\* select returns the number of ready descriptors. Either the break pipe is
\* taken to be set, it is drained (read fails on descriptor -1, or reads until
\* no byte is left) and nullopt is returned; or the set descriptors are queued
\* in the order of _fds and the queue is popped.
select_ready ==
    /\ backend = "select" /\ pc = "os"
    /\ SelectReady # {}
    /\ LET left == SelectResult(SelectReady)
       IN /\ result' = <<Cardinality(SelectReady)>>
          /\ _reader' = left
          /\ events' = SelectSeq(_fds, LAMBDA fd : fd \in left)
          /\ \E isset \in BreakPipeIsSet(left) :
               IF isset
               THEN /\ pipeBytes' = 0
                    /\ wakeAt' = IF pipeBytes > 0 THEN "none" ELSE wakeAt
                    /\ errno' = IF _breakPipe[1] = -1 THEN "EBADF" ELSE errno
                    /\ ret' = <<>>
                    /\ _pending' = _pending
               ELSE LET p == try_pop_pending(Scan(left, _pending))
                    IN /\ ret' = p.fd
                       /\ _pending' = p.rest
                       /\ errno' = IF p.fd = <<>> THEN "EAGAIN" ELSE errno
                       /\ UNCHANGED <<pipeBytes, wakeAt>>
    /\ pc' = "idle"
    /\ UNCHANGED <<backend, lifeVars, convVars, _fds, _breakPipe, epVars, readable, timeout,
                   everReadable, cleanCancelled>>

\* select returns 0: the timeout ran out with nothing ready, and the bitmap
\* below nfds is cleared. errno is what try_pop_pending left.
select_timeout ==
    /\ backend = "select" /\ pc = "os"
    /\ SelectReady = {}
    /\ SelectTimeval(timeout) # <<>>
    /\ result' = <<0>>
    /\ _reader' = SelectResult({})
    /\ ret' = <<>>
    /\ pc' = "idle"
    /\ UNCHANGED <<backend, lifeVars, convVars, _fds, _breakPipe, pipeBytes, epVars, _pending, readable,
                   timeout, errno, histVars>>

\* A signal interrupts the sleeping select: -1 with EINTR, the bitmap is left
\* as it was, and wait_one returns nullopt.
select_eintr ==
    /\ backend = "select" /\ pc = "os"
    /\ SelectReady = {}
    /\ SelectTimeval(timeout) # <<[tv_sec |-> 0, tv_usec |-> 0]>>
    /\ result' = <<-1>>
    /\ errno' = "EINTR"
    /\ ret' = <<>>
    /\ pc' = "idle"
    /\ UNCHANGED <<backend, lifeVars, convVars, selVars, epVars, _pending, readable, timeout, histVars>>

\* select fails with another error: -1, and wait_one returns nullopt.
select_error ==
    /\ backend = "select" /\ pc = "os"
    /\ result' = <<-1>>
    /\ errno' = "EBADF"
    /\ ret' = <<>>
    /\ pc' = "idle"
    /\ UNCHANGED <<backend, lifeVars, convVars, selVars, epVars, _pending, readable, timeout, histVars>>

NextSelect ==
    \/ \E fd \in UserFds : posix_want_read(fd)
    \/ \E fd \in UserFds : posix_cancel_read(fd)
    \/ posix_wakeup
    \/ \E t \in Timeouts : posix_wait_one(t)
    \/ select
    \/ select_ready
    \/ select_timeout
    \/ select_eintr
    \/ select_error

NextEpoll ==
    \/ \E fd \in UserFds : epoll_want_read(fd)
    \/ \E fd \in UserFds : epoll_cancel_read(fd)
    \/ epoll_wakeup
    \/ \E t \in Timeouts : epoll_wait_one(t)
    \/ epoll_wait
    \/ epoll_wait_ready
    \/ epoll_wait_timeout
    \/ epoll_wait_eintr
    \/ epoll_wait_error

NextOS ==
    \/ \E S \in SUBSET UserFds : BecomeReadable(S)
    \/ ReadData

Next == NextOS \/ NextEpoll \/ NextSelect

Spec == Init /\ [][Next]_vars

\* ---------------------------------------------------------------- lifetime
\* Neither class declares a copy or move constructor: a selector is copied
\* member by member (posix_read_selector::create returns one by value), and the
\* copy of an epoll_read_selector holds the same two descriptor numbers.
\* (Copies are made before the first destructor runs.)
copy_construct ==
    /\ objects >= 1 /\ objects < MaxObjects
    /\ \A n \in OwnNumbers : closeCalls[n] = 0
    /\ objects' = objects + 1
    /\ UNCHANGED <<backend, convVars, selVars, epVars, _pending, readable, waitVars, histVars,
                   _epollFd, fdTable, closeCalls, wanted>>

\* close(n): the number is released, whoever holds it; EBADF when it is closed.
close(table, n) == [table EXCEPT ![n] = "closed"]

\* ~epoll_read_selector: close(_epollFd); close(_eventFd).
epoll_destructor ==
    /\ backend = "epoll"
    /\ objects >= 1
    /\ objects' = objects - 1
    /\ fdTable' = close(close(fdTable, _epollFd), _eventFd)
    /\ closeCalls' = [n \in OwnNumbers |->
                        IF n \in {_epollFd, _eventFd} THEN closeCalls[n] + 1
                        ELSE closeCalls[n]]
    /\ UNCHANGED <<backend, convVars, selVars, epVars, _pending, readable, waitVars, histVars,
                   _epollFd, wanted>>

\* posix_read_selector has the implicit destructor: no descriptor is closed.
posix_destructor ==
    /\ backend = "select"
    /\ objects >= 1
    /\ objects' = objects - 1
    /\ UNCHANGED <<backend, convVars, selVars, epVars, _pending, readable, waitVars, histVars,
                   _epollFd, fdTable, closeCalls, wanted>>

\* The caller opens a file and the OS hands out a number a destructor released.
CallerOpen(n) ==
    /\ fdTable[n] = "closed" /\ closeCalls[n] >= 1
    /\ fdTable' = [fdTable EXCEPT ![n] = "caller"]
    /\ UNCHANGED <<backend, convVars, selVars, epVars, _pending, readable, waitVars, histVars,
                   _epollFd, objects, closeCalls, wanted>>

\* want_read(n) on a selector whose _epollFd a destructor of a copy has closed,
\* for a descriptor n of the caller's: epoll_ctl fails (EBADF, or EINVAL when
\* the number of _epollFd is now the caller's file) and nothing is registered.
epoll_want_read_closed(n) ==
    /\ backend = "epoll"
    /\ objects >= 1
    /\ closeCalls[_epollFd] >= 1
    /\ fdTable[n] = "caller"
    /\ wanted' = wanted \cup {n}
    /\ UNCHANGED <<backend, convVars, selVars, epVars, _pending, readable, waitVars, histVars,
                   _epollFd, objects, fdTable, closeCalls>>

\* The selector has an object alive and no destructor has run yet.
Intact == objects >= 1 /\ \A n \in OwnNumbers : closeCalls[n] = 0

NextLifetime ==
    \/ Intact /\ NextOS
    \/ Intact /\ NextEpoll
    \/ Intact /\ NextSelect
    \/ copy_construct
    \/ epoll_destructor
    \/ posix_destructor
    \/ \E n \in OwnNumbers : CallerOpen(n)
    \/ \E n \in OwnNumbers : epoll_want_read_closed(n)

\* The selector with the lifetime of its objects: construction (Init), copies,
\* destruction. The operations are those of Spec, on a selector no destructor
\* has touched.
SpecLifetime == Init /\ [][NextLifetime]_vars

\* ---------------------------------------------------------------- any descriptor number
\* want_read and cancel_read take an int: the caller can pass the number of
\* the selector's own eventfd. (With the number of _epollFd, or of no open
\* file, epoll_ctl fails with EINVAL or EBADF and nothing changes.)
NextAnyFd ==
    \/ NextOS
    \/ NextEpoll
    \/ NextSelect
    \/ epoll_want_read(EventFdNumber)
    \/ epoll_cancel_read(EventFdNumber)

SpecAnyFd == Init /\ [][NextAnyFd]_vars

\* ---------------------------------------------------------------- timeout translations
\* wait_one(count) of the select backend builds its timeval.
posix_timeval ==
    /\ backend = "select"
    /\ osTimeout = <<>>
    /\ osTimeout' = <<SelectTimeval(count)>>
    /\ UNCHANGED <<backend, lifeVars, count, selVars, epVars, _pending, readable, waitVars, histVars>>

\* wait_one(count) of the epoll backend computes the last argument of epoll_wait.
epoll_timeout_argument ==
    /\ backend = "epoll"
    /\ osTimeout = <<>>
    /\ osTimeout' = <<EpollTimeout(count)>>
    /\ UNCHANGED <<backend, lifeVars, count, selVars, epVars, _pending, readable, waitVars, histVars>>

\* A wait_one called with any of TimeoutInputs, up to the readiness call.
InitTimeouts ==
    /\ InitSelector
    /\ count \in TimeoutInputs
    /\ osTimeout = <<>>

NextTimeouts ==
    \/ posix_timeval
    \/ epoll_timeout_argument

\* The timeout translations of the two wait_one, applied to every argument
\* of TimeoutInputs.
SpecTimeouts == InitTimeouts /\ [][NextTimeouts]_vars

\* ---------------------------------------------------------------- properties
\* A step in which the readiness call returns and wait_one with it.
OsReturn == pc = "os" /\ pc' = "idle"

\* A step in which wait_one returns the head of the pending queue at once.
FastReturn ==
    /\ pc = "idle" /\ pc' = "idle"
    /\ _pending # <<>> /\ _pending' = Tail(_pending)

RegisteredReadable == {fd \in readable : Registered(fd)}

\* The wakeup channel holds a wake and is in the interest set of the readiness call.
WakeChannelReadable ==
    IF backend = "epoll"
    THEN _eventFd \in epollTable /\ eventCount > 0
    ELSE _breakPipe[1] \in _reader /\ pipeBytes > 0

WakeupChannel == IF backend = "epoll" THEN _eventFd ELSE _breakPipe[1]

\* C1: no loss, no duplication. The caller reads a descriptor's data only when
\* wait_one hands it that descriptor, so the readable descriptors are the ones
\* made ready and not yet delivered. Every descriptor wait_one returns is one
\* of them (no duplicate), wait_one reports TimedOut only when no registered
\* descriptor is among them, and it never sits in the readiness call while
\* one is (no loss).
NoLossNoDupStep ==
    /\ (OsReturn \/ FastReturn) =>
         /\ ret' # <<>> => ret'[1] \in readable
         /\ Outcome(ret', errno') = "TimedOut" => RegisteredReadable = {}
    /\ (pc' = "os" /\ RegisteredReadable' # {}) =>
         IF backend = "epoll" THEN EpollReady' # {} ELSE SelectReady' # {}
NoLossNoDup == [][NoLossNoDupStep]_vars

\* C2: a wakeup() issued while the waiter is inside the readiness call of a
\* wait_one with no timeout or with TimeoutMs, with no registered descriptor
\* readable, makes that wait_one return Interrupted (the readiness call itself
\* not failing).
WakeInterruptsBlockedWaitStep ==
    (OsReturn /\ wakeAt = "os" /\ timeout # <<0>> /\ RegisteredReadable = {}
       /\ result'[1] >= 0)
        => Outcome(ret', errno') = "Interrupted"
WakeInterruptsBlockedWait == [][WakeInterruptsBlockedWaitStep]_vars

\* C3: after a wakeup() issued while no wait_one was in progress, with a
\* descriptor registered, nothing pending and nothing readable, the next
\* wait_one (with no timeout or with TimeoutMs) returns Interrupted (the
\* readiness call itself not failing).
WakeBeforeWaitInterruptsStep ==
    (OsReturn /\ wakeAt = "idle" /\ timeout # <<0>> /\ RegisteredReadable = {}
       /\ result'[1] >= 0
       /\ \E fd \in UserFds : Registered(fd))
        => Outcome(ret', errno') = "Interrupted"
WakeBeforeWaitInterrupts == [][WakeBeforeWaitInterruptsStep]_vars

\* C4: no missed wakeup: whenever the waiter is inside the readiness call and
\* a wakeup() has not been drained, wherever the waiter was when it was issued,
\* the wakeup channel is readable in the call's interest set, so the call
\* returns at once.
NoMissedWakeup == (pc = "os" /\ wakeAt # "none") => WakeChannelReadable

\* C5: the wakeup channel's descriptor is never in the pending queue and is
\* never the value wait_one returns.
WakeupChannelHidden ==
    /\ WakeupChannel \notin Range(_pending)
    /\ ret # <<WakeupChannel>>

\* The readiness call reported the eventfd together with a real descriptor,
\* and wait_one returned the real one.
WakeupChannelHiddenWitness ==
    /\ backend = "epoll" /\ pc = "idle"
    /\ result # <<>> /\ result[1] > Len(events)
    /\ ret # <<>>

\* C6: what the caller receives identifies the outcome: a zero result of the
\* readiness call is reported as TimedOut, a failed call as Error, a positive
\* result as a descriptor or as Interrupted, and Interrupted is reported only
\* when a wakeup() was pending.
OutcomeIdentifiesStep ==
    OsReturn =>
        /\ result'[1] = 0 => Outcome(ret', errno') = "TimedOut"
        /\ result'[1] < 0 => Outcome(ret', errno') = "Error"
        /\ result'[1] > 0 => Outcome(ret', errno') \in {"Ready", "Interrupted"}
        /\ Outcome(ret', errno') = "Interrupted" => wakeAt # "none"
OutcomeIdentifies == [][OutcomeIdentifiesStep]_vars

\* C7: the pending queue is strictly FIFO and one readiness call serves a whole
\* batch: the queue changes only when wait_one pops its head and returns it
\* without a readiness call, or when a readiness call made with the queue empty
\* fills it; what that call returns, followed by what it leaves queued, is the
\* batch in the order the backend enumerated it; and the waiter is never in
\* or on its way into a readiness call while the queue is non-empty.
FifoBatchStep ==
    /\ _pending' # _pending =>
         \/ /\ pc = "idle" /\ pc' = "idle" /\ _pending # <<>>
            /\ ret' = <<Head(_pending)>> /\ _pending' = Tail(_pending)
            /\ result' = <<>>
         \/ OsReturn /\ _pending = <<>>
    /\ (OsReturn /\ ret' # <<>>) => ret' \o _pending' = events'
    /\ (pc = "idle" /\ pc' = "enter") => _pending = <<>>
    /\ pc' \in {"enter", "os"} => _pending' = <<>>
FifoBatch == [][FifoBatchStep]_vars

\* A readiness call has enumerated two different descriptors: wait_one has
\* returned the first and the second waits in the queue.
FifoBatchWitness ==
    /\ pc = "idle" /\ result = <<2>>
    /\ Len(events) = 2 /\ events[1] # events[2]
    /\ ret = <<events[1]>> /\ _pending = <<events[2]>>

\* C8 as stated: a wait_one with zero timeout returns a descriptor or TimedOut
\* (the readiness call itself not failing).
ZeroTimeoutReadyOrTimedOutStep ==
    (((OsReturn /\ result'[1] >= 0) \/ FastReturn) /\ timeout' = <<0>>)
        => Outcome(ret', errno') \in {"Ready", "TimedOut"}
ZeroTimeoutReadyOrTimedOut == [][ZeroTimeoutReadyOrTimedOutStep]_vars

\* The readiness call can return a result (ready descriptors, or zero) now.
ReadinessCallReturnsNow ==
    IF backend = "epoll"
    THEN (ENABLED epoll_wait_ready) \/ (ENABLED epoll_wait_timeout)
    ELSE (ENABLED select_ready) \/ (ENABLED select_timeout)

\* C8, amended: a wait_one with zero timeout never blocks: whenever the waiter
\* is inside the readiness call of such a wait_one, the call returns at once,
\* with ready descriptors or with zero.
ZeroTimeoutNeverBlocks ==
    (pc = "os" /\ timeout = <<0>>) => ReadinessCallReturnsNow

\* A zero-timeout wait_one is inside the readiness call with nothing to report.
ZeroTimeoutWitness ==
    /\ pc = "os" /\ timeout = <<0>>
    /\ RegisteredReadable = {} /\ eventCount = 0
    /\ \E fd \in UserFds : Registered(fd)

\* The descriptors of S in ascending order.
RECURSIVE Ascending(_)
Ascending(S) ==
    IF S = {} THEN <<>>
    ELSE LET m == CHOOSE x \in S : \A y \in S : x <= y
         IN <<m>> \o Ascending(S \ {m})

\* C9: select backend: when the readiness call returns while registered
\* descriptors are readable, wait_one returns the smallest of them and leaves
\* the others queued in ascending order; and when the call returns zero,
\* wait_one reports TimedOut.
SelectAscendingStep ==
    (backend = "select" /\ OsReturn /\ result'[1] >= 0) =>
        /\ RegisteredReadable # {} => ret' \o _pending' = Ascending(RegisteredReadable)
        /\ result'[1] = 0 => Outcome(ret', errno') = "TimedOut"
SelectAscending == [][SelectAscendingStep]_vars

\* C10: a descriptor cancelled before it has ever been readable, and not
\* registered again, is never queued and never returned.
CancelledNeverReturned ==
    \A fd \in cleanCancelled : fd \notin Range(_pending) /\ ret # <<fd>>

\* Such a descriptor has become readable, and the waiter is inside a
\* readiness call that watches another descriptor.
CancelledNeverReturnedWitness ==
    /\ pc = "os"
    /\ cleanCancelled \cap readable # {}
    /\ \E fd \in UserFds : Registered(fd)

\* C11: every Interrupted outcome is caused by a wake: wait_one returns
\* Interrupted only when a wakeup() has been issued and not yet drained, and
\* that return drains it; and a readiness call returns only descriptors that
\* are registered and readable, wake or no wake.
InterruptedOnlyByWakeStep ==
    /\ ((OsReturn \/ FastReturn) /\ Outcome(ret', errno') = "Interrupted")
         => wakeAt # "none" /\ wakeAt' = "none"
    /\ (OsReturn /\ ret' # <<>>) => ret'[1] \in RegisteredReadable
InterruptedOnlyByWake == [][InterruptedOnlyByWakeStep]_vars

\* C12: wake coalescing: with one or more wakeup() calls undrained, nothing
\* pending and no registered descriptor readable, the next readiness call
\* (not itself failing, of a wait_one with no timeout or with TimeoutMs)
\* returns Interrupted and leaves the wakeup channel drained, so that no
\* wake is left to interrupt a further wait_one.
WakesCoalesceStep ==
    (OsReturn /\ wakeAt # "none" /\ timeout # <<0>> /\ RegisteredReadable = {}
       /\ result'[1] >= 0)
        => /\ Outcome(ret', errno') = "Interrupted"
           /\ wakeAt' = "none"
           /\ ~WakeChannelReadable'
WakesCoalesce == [][WakesCoalesceStep]_vars

\* The descriptors one readiness call of the backend in use reports for the
\* caller: registered with the kernel object and readable.
OsReported ==
    IF backend = "epoll" THEN EpollReady \ {_eventFd} ELSE SelectReady

\* C13: every descriptor wait_one returns was reported ready by a readiness
\* call of this selector for a registered descriptor: a readiness call returns
\* or queues only descriptors it reports, which are registered and readable;
\* no other step adds to the queue; and a return without a readiness call
\* hands back the head of the queue.
ReturnedWasReportedStep ==
    /\ OsReturn =>
         /\ Range(ret' \o _pending') \subseteq Range(_pending) \cup OsReported
         /\ OsReported \subseteq RegisteredReadable
    /\ ~OsReturn => Range(_pending') \subseteq Range(_pending)
    /\ FastReturn => _pending # <<>> /\ ret' = <<Head(_pending)>>
    /\ (~OsReturn /\ ~FastReturn) => ret' = ret \/ ret' = <<>>
ReturnedWasReported == [][ReturnedWasReportedStep]_vars

\* Two descriptors were reported in one batch; the second was queued, then
\* cancelled, and a later wait_one handed it back from the queue.
ReturnedWasReportedWitness ==
    /\ pc = "idle" /\ result = <<>> /\ ret # <<>>
    /\ ~Registered(ret[1])
    /\ \E fd \in UserFds : fd # ret[1] /\ Registered(fd)

\* C14: a readiness call interrupted by a signal (EINTR) is never surfaced:
\* when the call fails with EINTR, wait_one does not return but is in the
\* readiness call again, with nothing else changed.
EintrRetriedStep ==
    (pc = "os" /\ result' = <<-1>> /\ errno' = "EINTR")
        => pc' = "os" /\ ret' = ret /\ _pending' = _pending
EintrRetried == [][EintrRetriedStep]_vars

\* Every registered descriptor is in the interest set the next readiness call
\* is given: the kernel table of epoll, the bitmap _reader of select.
InterestCoversRegistered ==
    \A fd \in UserFds :
        Registered(fd) =>
            IF backend = "epoll" THEN fd \in epollTable ELSE fd \in _reader

\* C15: after wait_one returns Error because the readiness call failed (a
\* negative result other than EINTR) the selector remains usable: the failed
\* call left the watched set and the pending queue as they were, and the next
\* readiness call watches every registered descriptor, so that each one that
\* becomes ready is still reported.
UsableAfterErrorStep ==
    (OsReturn /\ result' = <<-1>> /\ Outcome(ret', errno') = "Error")
        => /\ UNCHANGED <<_fds, _reader, epollTable, _eventFd, _pending>>
           /\ InterestCoversRegistered'
UsableAfterError == [][UsableAfterErrorStep]_vars

\* What epoll_read_selector::wait_one makes of one readiness call: res is the
\* call's result, err its errno, queued says that the call reported a caller's
\* descriptor, piped that it reported the wakeup channel with a wake in it.
\* "Retry" is the `continue` of the loop.
epoll_wait_one_outcome(res, err, queued, piped) ==
    IF res = 0 THEN "TimedOut"
    ELSE IF res < 0 THEN (IF err = "EINTR" THEN "Retry" ELSE "Error")
    ELSE IF queued THEN "Ready"
    ELSE IF piped THEN "Interrupted"
    ELSE "TimedOut"

\* A step in which the readiness call comes back to wait_one.
OsCallEnds == pc = "os" /\ (pc' = "idle" \/ result' = <<-1>>)

\* C16: backend agnosticism: whichever backend is in use, for every result of
\* the readiness call (ready descriptors, timeout expiry, EINTR, fatal error)
\* wait_one reports the outcome class that epoll_read_selector::wait_one
\* reports for that result (or, as it does, goes on waiting): both backends
\* report the same class for the same operations and OS events.
BackendsAgreeStep ==
    OsCallEnds =>
        LET class == epoll_wait_one_outcome(result'[1], errno', events' # <<>>,
                                            WakeChannelReadable)
        IN IF class = "Retry"
           THEN pc' = "os"
           ELSE pc' = "idle" /\ Outcome(ret', errno') = class
BackendsAgree == [][BackendsAgreeStep]_vars

\* The number of times x occurs in the sequence s.
Count(s, x) == Cardinality({i \in 1..Len(s) : s[i] = x})

\* C17: a descriptor is registered at most once: whatever want_read and
\* cancel_read calls were made, each descriptor occurs at most once in the
\* watched set (the vector _fds of select; the kernel table of epoll is a
\* set), and at most once in the batch of one readiness call.
RegisteredAtMostOnce ==
    \A fd \in UserFds : Count(_fds, fd) <= 1 /\ Count(events, fd) <= 1

\* C18: cancel_read(fd) removes fd from the watched set and leaves every
\* other watched descriptor, the wakeup channel and the pending queue as they
\* were; when fd is not watched it changes nothing.
CancelReadFrameStep ==
    \A fd \in UserFds :
        (epoll_cancel_read(fd) \/ posix_cancel_read(fd)) =>
            /\ Count(_fds', fd) = 0 /\ fd \notin _reader' /\ fd \notin epollTable'
            /\ \A g \in (UserFds \cup {EventFdNumber}) \ {fd} :
                 /\ Count(_fds', g) = Count(_fds, g)
                 /\ (g \in _reader') = (g \in _reader)
                 /\ (g \in epollTable') = (g \in epollTable)
            /\ UNCHANGED <<_pending, _eventFd, eventCount, _breakPipe, pipeBytes>>
            /\ (~Registered(fd) /\ fd \notin _reader) =>
                 UNCHANGED <<backend, selVars, epVars, _pending, readable, waitVars>>
OwnedFds ==
    IF backend = "epoll" THEN {_epollFd, _eventFd}
    ELSE {fd \in Range(_breakPipe) : fd # -1}

\* C19: destruction releases every owned OS resource exactly once: no owned
\* descriptor is ever closed twice, and when every selector object (the one
\* constructed and its copies) has been destroyed each owned descriptor has
\* been closed once.
ReleasedExactlyOnce ==
    \A n \in OwnedFds :
        /\ closeCalls[n] <= 1
        /\ objects = 0 => closeCalls[n] = 1

\* C20: no selector operation closes a caller's descriptor: every descriptor
\* of the caller's that was passed to want_read is still open (the caller of
\* this model closes nothing).
CallerFdsStayOpen == \A n \in wanted : fdTable[n] = "caller"

\* The wakeup channel is in the interest set of the readiness call.
WakeChannelWatched ==
    IF backend = "epoll" THEN _eventFd \in epollTable ELSE _breakPipe[1] \in _reader

\* C21: in both backends the selector holds a valid wakeup channel descriptor
\* from construction on, and the channel is in the interest set of every
\* readiness call wait_one makes.
WakeupChannelExists ==
    /\ WakeupChannel # -1
    /\ pc = "os" => WakeChannelWatched

\* C22: wait_one with an empty watched set is rejected before any readiness
\* call: a wait_one that goes on to the readiness call has a caller's
\* descriptor registered.
EmptySetRejectedStep ==
    (pc = "idle" /\ pc' = "enter") => \E fd \in UserFds : Registered(fd)
EmptySetRejected == [][EmptySetRejectedStep]_vars

\* C23: wakeup() never blocks and waits for nothing the waiter holds: in every
\* state, wherever wait_one is and however many wakes are undrained (the
\* counter at its maximum included), a wakeup() call can complete at once.
WakeupNeverBlocks ==
    IF backend = "epoll" THEN ENABLED epoll_wakeup ELSE ENABLED posix_wakeup

\* The waiter is blocked in the readiness call while the counter of undrained
\* wakes is at its maximum.
WakeupNeverBlocksWitness ==
    /\ backend = "epoll" /\ pc = "os" /\ eventCount = MaxWakes

\* C24: epoll backend, priority rule. When the batch of one epoll_wait holds
\* the eventfd and a caller's descriptor, wait_one drains the counter, queues
\* the descriptors and returns the first of them; it returns Interrupted only
\* when the batch held the eventfd and no caller's descriptor, and TimedOut
\* only when it held neither.
EpollPriorityStep ==
    (backend = "epoll" /\ OsReturn /\ result'[1] >= 0) =>
        LET woken == _eventFd \in EpollReady
            real == EpollReady \ {_eventFd}
        IN /\ (woken /\ real # {}) =>
                /\ eventCount' = 0
                /\ ret' # <<>> /\ ret' = <<events'[1]>>
                /\ Range(ret' \o _pending') = real
           /\ Outcome(ret', errno') = "Interrupted" <=> (woken /\ real = {})
           /\ Outcome(ret', errno') = "TimedOut" <=> (~woken /\ real = {})
EpollPriority == [][EpollPriorityStep]_vars

\* One batch held the eventfd and both of two descriptors: the counter is
\* drained, the first descriptor returned, the second queued.
EpollPriorityWitness ==
    /\ backend = "epoll" /\ pc = "idle"
    /\ result # <<>> /\ result[1] = Len(events) + 1 /\ Len(events) >= 2
    /\ ret = <<events[1]>> /\ _pending # <<>>
    /\ eventCount = 0

\* C25: no wake is lost: the wakeup channel is drained of a wake only by a
\* wait_one that returns Interrupted, and no wait_one returns TimedOut while
\* a wake has been issued and not answered; also when a descriptor is ready
\* in the same batch or the pending queue is not empty.
NoWakeLostStep ==
    /\ (wakeAt # "none" /\ wakeAt' = "none")
         => Outcome(ret', errno') = "Interrupted"
    /\ (OsReturn /\ wakeAt # "none")
         => Outcome(ret', errno') # "TimedOut"
NoWakeLost == [][NoWakeLostStep]_vars

\* C26: select backend, wake beats readiness. When a wake has been issued and
\* a registered descriptor is readable in the same readiness call, wait_one
\* drains the wakeup pipe, returns Interrupted and queues nothing, and the
\* descriptor stays in the interest set, so that the next wait_one finds it.
SelectWakeBeatsReadinessStep ==
    (backend = "select" /\ OsReturn /\ wakeAt # "none" /\ RegisteredReadable # {}
       /\ result'[1] >= 0)
        => /\ Outcome(ret', errno') = "Interrupted"
           /\ _pending' = <<>>
           /\ pipeBytes' = 0 /\ wakeAt' = "none"
           /\ RegisteredReadable \subseteq _reader'
SelectWakeBeatsReadiness == [][SelectWakeBeatsReadinessStep]_vars

\* C27: select backend, the interest set is stable across waits: the
\* descriptors marked in _reader are those of the watched list _fds, whatever
\* want_read, cancel_read and wait_one calls were made and however they ended.
SelectInterestStable == backend = "select" => _reader = Range(_fds)

\* C28: cancel_read does not purge the pending queue. cancel_read(fd) leaves
\* the queued entries of fd where they are; a wait_one called with a queued
\* entry hands out the head of the queue, registered or not, and removes that
\* one entry; and a descriptor that is not registered gets no new entry: no
\* readiness call returns or queues it.
CancelKeepsQueuedStep ==
    /\ \A fd \in UserFds :
         (epoll_cancel_read(fd) \/ posix_cancel_read(fd)) => _pending' = _pending
    /\ ((\E t \in Timeouts : epoll_wait_one(t) \/ posix_wait_one(t)) /\ _pending # <<>>)
         => ret' = <<Head(_pending)>> /\ _pending' = Tail(_pending)
    /\ \A fd \in UserFds :
         (~Registered(fd) /\ ~Registered(fd)') =>
             /\ Count(_pending', fd) <= Count(_pending, fd)
             /\ OsReturn => ret' # <<fd>>
CancelKeepsQueued == [][CancelKeepsQueuedStep]_vars

\* A descriptor was queued, then cancelled while still readable, and the next
\* wait_one handed it out from the queue: it is not registered and not queued
\* any more.
CancelKeepsQueuedWitness ==
    /\ pc = "idle" /\ result = <<>> /\ ret # <<>>
    /\ ~Registered(ret[1]) /\ ret[1] \in readable
    /\ Count(_pending, ret[1]) = 0

\* A step that is a call of wait_one (up to its return from the queue or its
\* entry into the readiness call).
WaitOneCall == \E t \in Timeouts : epoll_wait_one(t) \/ posix_wait_one(t)

\* C29: pending queue frame conditions. want_read, cancel_read and wakeup
\* leave the queue unchanged; it grows only when a readiness call of wait_one
\* returns descriptors; a wait_one that returns a descriptor removes exactly
\* one entry, the head; a wait_one that returns no descriptor (Interrupted,
\* TimedOut, Error) leaves the queue empty.
PendingFrameStep ==
    /\ ((\E fd \in UserFds : \/ epoll_want_read(fd) \/ posix_want_read(fd)
                             \/ epoll_cancel_read(fd) \/ posix_cancel_read(fd))
        \/ epoll_wakeup \/ posix_wakeup)
         => _pending' = _pending
    /\ Len(_pending') > Len(_pending) => OsReturn /\ result'[1] > 0
    /\ (WaitOneCall /\ pc' = "idle")
         => ret' = <<Head(_pending)>> /\ _pending' = Tail(_pending)
    /\ (OsReturn /\ ret' # <<>>)
         => /\ Len(_pending') = Len(_pending) + Len(events') - 1
            /\ ret' = <<Head(_pending \o events')>>
    /\ (OsReturn /\ ret' = <<>>) => _pending' = <<>>
PendingFrame == [][PendingFrameStep]_vars

\* A readiness call has put two descriptors into the queue and returned the
\* first; a registration then changed while the second is still queued.
PendingFrameWitness ==
    /\ pc = "idle" /\ result # <<>> /\ Len(events) >= 2
    /\ ret = <<events[1]>> /\ _pending # <<>>
    /\ \E fd \in Range(events) : ~Registered(fd)

\* At least one descriptor of the caller's is registered.
Armed == \E fd \in UserFds : Registered(fd)

\* C30: selector lifecycle. Waiting (the readiness call) is entered from
\* Armed only; the readiness call ends in exactly one of the outcomes Ready,
\* Interrupted, TimedOut, Error; and the outcome leaves the registrations as
\* they were, so that the selector is Armed again for a further wait_one.
LifecycleStep ==
    /\ (pc = "idle" /\ pc' = "enter") => Armed
    /\ OsReturn =>
         /\ Outcome(ret', errno') \in {"Ready", "Interrupted", "TimedOut", "Error"}
         /\ UNCHANGED <<_fds, _reader, epollTable>>
         /\ Armed => Armed' /\ InterestCoversRegistered'
Lifecycle == [][LifecycleStep]_vars

\* C31: ordinary readiness is level-triggered: every readiness call of
\* wait_one that returns (without failing) reports each registered descriptor
\* that is readable at that moment, whether or not an earlier call has
\* reported it already.
LevelTriggeredStep ==
    (OsReturn /\ result'[1] >= 0) => RegisteredReadable \subseteq Range(events')
LevelTriggered == [][LevelTriggeredStep]_vars

\* C32: registration while a wait is blocked, followed by wakeup(). The
\* blocked wait_one returns Interrupted when the wake was issued inside its
\* readiness call and no registered descriptor is readable; and every
\* readiness call reports exactly the readable descriptors of the interest
\* set as the registrations stand when it returns: a descriptor registered
\* meanwhile is reported once readable, a cancelled one no more.
RegistrationThenWakeStep ==
    /\ (OsReturn /\ wakeAt = "os" /\ timeout # <<0>> /\ RegisteredReadable = {}
          /\ result'[1] >= 0)
         => Outcome(ret', errno') = "Interrupted" /\ InterestCoversRegistered'
    /\ (OsReturn /\ result'[1] >= 0) => Range(events') = RegisteredReadable
RegistrationThenWake == [][RegistrationThenWakeStep]_vars

\* C33: epoll backend: the eventfd is registered in the kernel table at
\* construction and stays registered, whatever descriptor numbers want_read
\* and cancel_read are called with.
EventFdStaysRegistered == backend = "epoll" => _eventFd \in epollTable

\* The watched list is in ascending order.
IsSorted(s) == \A i \in 1..Len(s) - 1 : s[i] <= s[i + 1]

\* C34: select backend, width argument: while the watched list is not empty
\* it is sorted ascending, its last element is the maximum watched
\* descriptor, and the width handed to select, that maximum plus one, covers
\* every descriptor set in the interest bitmap, the read end of the wakeup
\* pipe among them.
SelectWidthCovers ==
    (backend = "select" /\ _fds # <<>>) =>
        /\ IsSorted(_fds)
        /\ \A fd \in Range(_fds) : fd <= _fds[Len(_fds)]
        /\ \A fd \in _reader : fd < SelectNfds
        /\ _breakPipe[1] \in _reader /\ _breakPipe[1] < SelectNfds

\* C35: a wait_one without a timeout never returns TimedOut, and either
\* backend reports TimedOut only when its readiness call returned zero.
TimedOutOnlyOnZeroStep ==
    ((OsReturn \/ FastReturn) /\ Outcome(ret', errno') = "TimedOut")
        => timeout # <<>> /\ result' = <<0>>
TimedOutOnlyOnZero == [][TimedOutOnlyOnZeroStep]_vars

\* A wait_one with a timeout has returned TimedOut after a zero result.
TimedOutOnlyOnZeroWitness ==
    /\ pc = "idle" /\ result = <<0>> /\ timeout # <<>>
    /\ Outcome(ret, errno) = "TimedOut"

\* C36: select backend, timeout translation: for every non-negative count m
\* of milliseconds the timeval handed to select satisfies
\* tv_sec * 1000000 + tv_usec = m * 1000 with 0 <= tv_usec < 1000000, and a
\* null timeval is handed over when no timeout is given.
TimevalExact ==
    (backend = "select" /\ osTimeout # <<>>) =>
        LET tv == osTimeout[1]
        IN /\ count = <<>> => tv = <<>>
           /\ (count # <<>> /\ count[1] >= 0) =>
                /\ tv # <<>>
                /\ tv[1].tv_sec * 1000000 + tv[1].tv_usec = count[1] * 1000
                /\ 0 <= tv[1].tv_usec /\ tv[1].tv_usec < 1000000

\* The timeval of a timeout of more than a second that is not a whole number
\* of seconds has been built.
TimevalExactWitness ==
    /\ backend = "select" /\ osTimeout # <<>>
    /\ count # <<>> /\ count[1] > 1000 /\ count[1] % 1000 # 0
    /\ osTimeout[1][1].tv_sec >= 1 /\ osTimeout[1][1].tv_usec > 0

\* C37: epoll backend, timeout conversion: only an absent timeout makes the
\* wait indefinite; for every timeout that is present, negative ones and ones
\* that do not fit an int included, the value handed to epoll_wait after the
\* cast to int is non-negative, and so never -1.
EpollTimeoutFinite ==
    (backend = "epoll" /\ osTimeout # <<>> /\ count # <<>>) => osTimeout[1] >= 0

====
